---------------------------- MODULE Spec2Model ----------------------------
(***************************************************************************)
(* A model of the store / document lifecycle manager of rag-with-gemini:   *)
(*   src/app.py          the Streamlit application (File Search stores)    *)
(*   src/backend/main.py the FastAPI backend (Vertex RAG corpus)           *)
(*                                                                         *)
(* The module holds several specifications over one set of variables:      *)
(*   SpecIngest  upload_document and the poll loop wait_for_operation,     *)
(*               one program step per action, with a clock                 *)
(*   SpecStore   get_or_create_file_search_store / get_or_create_corpus    *)
(*               and the store operations against the remote listing       *)
(*   SpecOps     the public operations, one call per action, each with     *)
(*               the outcome of its remote call                            *)
(*   SpecChat    the chat tab of main and the backend's /chat              *)
(*   SpecExtract extract_citations over the generation responses           *)
(*   SpecPage    the filter and sort of the two document pages             *)
(*   SpecStats   get_store_stats and list_all_stores over reported counts  *)
(*   SpecOverview the store selector, the Create Store button and the      *)
(*               delete buttons of the overview in one session             *)
(*   SpecPoll    one run of wait_for_operation, with weak fairness on its  *)
(*               steps                                                     *)
(***************************************************************************)
EXTENDS Integers, Sequences, FiniteSets, TLC

VARIABLES
    \* ---- ingestion (upload_document, wait_for_operation) ----
    pc,               \* position of the ingestion call
    now,              \* time.time(), in seconds since the call began
    chunk_size,       \* upload_document's chunk_size argument
    chunk_overlap,    \* upload_document's chunk_overlap argument
    temp_path,        \* upload_document's local temp_path
    tempFiles,        \* the staged temporary files that exist on disk
    timeout_seconds,  \* wait_for_operation's timeout_seconds argument
    deadline,         \* wait_for_operation's local deadline
    upload_op,        \* the operation handle the upload submission returned
    current,          \* wait_for_operation's local current (operation handle)
    progress_bar,     \* what the progress bar shows (NoProgress when cleared)
    status_text,      \* what the status placeholder shows
    exc,              \* the exception in flight, "none" when there is none
    ret,              \* the value returned by the frame that last returned
    outcome,          \* how the call ended, with the message it reported
    uploads,          \* remote upload submissions issued
    fetches,          \* client.operations.get calls issued
    sleeps,           \* time.sleep(3) calls of the poll loop
    lastProgress,     \* the last value handed to progress_bar.progress
    checkedAt,        \* clock value read by the last deadline check
    fetchedAt,        \* clock value when the last status fetch returned
    \* ---- store registry and session ----
    impl,             \* which program runs: "app" or "backend"
    FILE_SEARCH_STORE_NAME,  \* the configured store id (NoStore when unset)
    store_name,       \* st.session_state.store_name (NoStore when absent)
    rag_corpus,       \* the backend's global rag_corpus (NoStore when None)
    remoteStores,     \* the remote service's stores, in listing order
    nextId,           \* the identifier the remote gives the next new store
    trace,            \* the calls made so far, each with what it saw and did
    \* ---- public operations ----
    remoteDocs,       \* the documents of the active store, in listing order
    lastCall,         \* the last public operation called, with its result
    \* ---- what the pages hold and show ----
    messages,         \* st.session_state.messages, the chat history
    step,             \* position of the function under study
    response,         \* the generation response handed to extract_citations
    citations,        \* the list extract_citations returned
    documents,        \* the list list_all_documents returned to the page
    listed,           \* that list as it was when it was returned
    shown,            \* state_filter, search_term and sort_by of the page
    filtered_docs,    \* the page's filtered_docs after filtering and sorting
    refiltered,       \* filtered_docs of the same page given filtered_docs
    confirm_delete_store,  \* st.session_state.confirm_delete_store (NoStore when absent)
    deleted           \* the stores this session has deleted with success

ingestVars == <<pc, now, chunk_size, chunk_overlap, temp_path, tempFiles,
                timeout_seconds, deadline, upload_op, current, progress_bar, status_text,
                exc, ret, outcome, uploads, fetches, sleeps, lastProgress,
                checkedAt, fetchedAt>>
storeVars == <<impl, FILE_SEARCH_STORE_NAME, store_name, rag_corpus,
               remoteStores, nextId, trace>>
opsVars == <<remoteDocs, lastCall>>
viewVars == <<messages, step, response, citations,
              documents, listed, shown, filtered_docs, refiltered,
              confirm_delete_store, deleted>>
overviewVars == <<confirm_delete_store, deleted>>
pageVars == <<documents, listed, shown, filtered_docs, refiltered, overviewVars>>
vars == <<ingestVars, storeVars, opsVars, viewVars>>

----------------------------------------------------------------------------
(* Bounds of the model *)

MaxTimeout == 8       \* timeout_seconds ranges over 1..MaxTimeout
MaxClock == 12        \* the clock stops ticking on its own at MaxClock
MaxChunkStep == 1     \* chunk-size slider positions 0..MaxChunkStep
MaxInitStores == 2    \* stores the remote holds when the session starts
MaxCalls == 3         \* calls recorded in one session
MaxDocs == 2          \* documents the active store holds at the start
MaxId == 3            \* the remote hands out store identifiers up to MaxId
MaxChunks == 3        \* grounding chunks in one generation response
MaxShown == 3         \* documents in the list a page filters and sorts
MaxCount == 2         \* the count or size the remote reports when it reports one

(* Program constants *)

Backoff == 3              \* time.sleep(3)
ChunkSizeMin == 100       \* st.slider("Chunk Size (tokens)", 100, 2000, 400, 50)
ChunkSizeStep == 50
ChunkOverlapMax == 200    \* st.slider("Chunk Overlap (tokens)", 0, 200, 40, 10)
ChunkOverlapStep == 10
BackendChunkSize == 512   \* rag.import_files(chunk_size=512, chunk_overlap=50)
BackendChunkOverlap == 50
CitationTextLimit == 80   \* rc.text[:80]

NoValue == -1             \* a count or size the remote service reports as None
NoStore == 0              \* no store identifier (None, or the key is absent)
FILE_SEARCH_DISPLAY_NAME == "rag-streamlit-store"
CORPUS_NAME == "rag-corpus-gemini"
NoError == [present |-> FALSE, hasMessage |-> FALSE, text |-> ""]

----------------------------------------------------------------------------
(* The poll loop's data *)

\* The errors an operation handle can carry: none, one with a message
\* attribute, one without (reported through str()).
Errors == {NoError,
           [present |-> TRUE, hasMessage |-> TRUE, text |-> "index failed"],
           [present |-> TRUE, hasMessage |-> FALSE, text |-> "Status(13)"]}

\* The operation handles the remote service can return.
Handles == {[done |-> FALSE, error |-> NoError]}
             \cup {[done |-> TRUE, error |-> e] : e \in Errors}

\* A progress without the cap.
Uncapped(elapsed, timeout) == <<elapsed, timeout>>

\* progress = min(elapsed / timeout_seconds, 0.99), as a fraction <<n, d>>.
Progress(elapsed, timeout) ==
    IF elapsed * 100 <= 99 * timeout THEN <<elapsed, timeout>> ELSE <<99, 100>>

\* error_msg = getattr(current.error, "message", str(current.error))
ErrorMsg(error) == error.text

\* The values the two sliders of the upload form can take.
ChunkSizes == {ChunkSizeMin + ChunkSizeStep * i : i \in 0..MaxChunkStep}
ChunkOverlaps == {ChunkOverlapStep * j : j \in 0..(ChunkOverlapMax \div ChunkOverlapStep)}

NoOutcome == [kind |-> "none", message |-> ""]
NoCall == [op |-> "none"]       \* no public operation called yet
NoHandle == [none |-> TRUE]     \* no operation handle yet
NoProgress == <<>>              \* no progress bar, or one that was cleared

----------------------------------------------------------------------------
(* upload_document and wait_for_operation of src/app.py, a step per action *)

\* The session's other state, which an ingestion call leaves alone.
InitSession ==
    /\ FILE_SEARCH_STORE_NAME = NoStore
    /\ store_name = NoStore
    /\ rag_corpus = NoStore
    /\ remoteStores = <<>>
    /\ nextId = 1
    /\ trace = <<>>
    /\ remoteDocs = <<>>
    /\ lastCall = NoCall

\* Nothing asked and nothing shown yet.
InitViewVars ==
    /\ messages = <<>>
    /\ step = "idle"
    /\ response = [text |-> "", candidates |-> "missing", grounded |-> FALSE, chunks |-> <<>>]
    /\ citations = <<>>
    /\ documents = <<>>
    /\ listed = <<>>
    /\ shown = [state_filter |-> "All", search_term |-> <<>>,
                sort_by |-> "Upload Time (Newest)"]
    /\ filtered_docs = <<>>
    /\ refiltered = <<>>
    /\ confirm_delete_store = NoStore
    /\ deleted = {}

InitIngestVars ==
    /\ pc = "idle"
    /\ now = 0
    /\ chunk_size = 0
    /\ chunk_overlap = 0
    /\ temp_path = "None"
    /\ tempFiles = {}
    /\ timeout_seconds = 0
    /\ deadline = 0
    /\ upload_op = NoHandle
    /\ current = NoHandle
    /\ progress_bar = NoProgress
    /\ status_text = "none"
    /\ exc = "none"
    /\ ret = "none"
    /\ outcome = NoOutcome
    /\ uploads = 0
    /\ fetches = 0
    /\ sleeps = 0
    /\ lastProgress = NoProgress
    /\ checkedAt = 0
    /\ fetchedAt = 0

InitIngest ==
    /\ InitIngestVars
    /\ InitViewVars
    /\ InitSession
    /\ impl \in {"app", "backend"}

\* Lines 220-227: temp_path = None; the temporary file is created with
\* delete=False, the bytes are written, and only then temp_path is assigned.
upload_document_stage(cs, co) ==
    /\ impl = "app"
    /\ pc = "idle"
    /\ chunk_size' = cs
    /\ chunk_overlap' = co
    /\ \/ /\ tempFiles' = {"tmp1"}              \* created and written
          /\ temp_path' = "tmp1"
          /\ exc' = "none"
          /\ pc' = "submit"
       \/ /\ tempFiles' = {}                    \* NamedTemporaryFile raises
          /\ temp_path' = "None"
          /\ exc' = "OSError"
          /\ pc' = "except"
       \/ /\ tempFiles' = {"tmp1"}              \* tmp.write raises
          /\ temp_path' = "None"
          /\ exc' = "OSError"
          /\ pc' = "except"
    /\ UNCHANGED <<now, timeout_seconds, deadline, upload_op, current,
                   progress_bar, status_text, ret, outcome, uploads, fetches,
                   sleeps, lastProgress, checkedAt, fetchedAt>>
    /\ UNCHANGED <<storeVars, opsVars, viewVars>>

\* Lines 229-252: the config is built from chunk_size and chunk_overlap as
\* given and the upload is submitted; the remote returns a handle or raises.
upload_document_submit ==
    /\ pc = "submit"
    /\ uploads' = uploads + 1
    /\ \/ \E h \in Handles :
            /\ upload_op' = h
            /\ exc' = "none"
            /\ pc' = "wait_init"
       \/ /\ upload_op' = upload_op
          /\ exc' = "RemoteError"
          /\ pc' = "except"
    /\ UNCHANGED <<now, chunk_size, chunk_overlap, temp_path, tempFiles,
                   timeout_seconds, deadline, current, progress_bar,
                   status_text, ret, outcome, fetches, sleeps, lastProgress,
                   checkedAt, fetchedAt>>
    /\ UNCHANGED <<storeVars, opsVars, viewVars>>

\* Lines 94-102: deadline = time.time() + timeout_seconds; current = operation;
\* the progress bar is created at 0 and the status placeholder empty.
wait_for_operation_enter(t) ==
    /\ pc = "wait_init"
    /\ timeout_seconds' = t
    /\ deadline' = now + t
    /\ current' = upload_op
    /\ progress_bar' = <<0, 1>>
    /\ status_text' = "empty"
    /\ pc' = "loop"
    /\ UNCHANGED <<now, chunk_size, chunk_overlap, temp_path, tempFiles,
                   upload_op, exc, ret, outcome, uploads, fetches, sleeps,
                   lastProgress, checkedAt, fetchedAt>>
    /\ UNCHANGED <<storeVars, opsVars, viewVars>>

\* Line 105: while not current.done, with the loop's test as a parameter
LoopTest(done) ==
    /\ pc = "loop"
    /\ pc' = IF done THEN "finish" ELSE "check"
    /\ UNCHANGED <<now, chunk_size, chunk_overlap, temp_path, tempFiles,
                   timeout_seconds, deadline, upload_op, current, progress_bar,
                   status_text, exc, ret, outcome, uploads, fetches, sleeps,
                   lastProgress, checkedAt, fetchedAt>>
    /\ UNCHANGED <<storeVars, opsVars, viewVars>>

\* A backoff sleep during which the clock does not advance.
wait_for_operation_sleep_frozen ==
    /\ pc = "sleep"
    /\ sleeps' = sleeps + 1
    /\ pc' = "fetch"
    /\ UNCHANGED <<now, chunk_size, chunk_overlap, temp_path, tempFiles,
                   timeout_seconds, deadline, upload_op, current, progress_bar,
                   status_text, exc, ret, outcome, uploads, fetches,
                   lastProgress, checkedAt, fetchedAt>>
    /\ UNCHANGED <<storeVars, opsVars, viewVars>>

\* A poll loop that fetches the status once before it first tests done.
wait_for_operation_loop_fetch_first == LoopTest(current.done /\ fetches > 0)

wait_for_operation_loop == LoopTest(current.done)

\* Lines 106-108: if <expired>: report the timeout, return False
DeadlineCheck(expired) ==
    /\ pc = "check"
    /\ checkedAt' = now
    /\ IF expired
         THEN /\ status_text' = "Operation timed out"
              /\ outcome' = [kind |-> "Timeout", message |-> "Operation timed out"]
              /\ ret' = "False"
              /\ pc' = "wait_finally"
         ELSE /\ pc' = "report"
              /\ UNCHANGED <<status_text, outcome, ret>>
    /\ UNCHANGED <<now, chunk_size, chunk_overlap, temp_path, tempFiles,
                   timeout_seconds, deadline, upload_op, current, progress_bar,
                   exc, uploads, fetches, sleeps, lastProgress, fetchedAt>>
    /\ UNCHANGED <<storeVars, opsVars, viewVars>>

\* A deadline check that gives up when the next sleep would pass the deadline.
wait_for_operation_check_early == DeadlineCheck(now + Backoff >= deadline)

\* A deadline check with > in place of >=.
wait_for_operation_check_strict == DeadlineCheck(now > deadline)

\* Line 106: if time.time() >= deadline
wait_for_operation_check == DeadlineCheck(now >= deadline)

\* Lines 110-113: elapsed = time.time() - (deadline - timeout_seconds);
\* progress = min(elapsed / timeout_seconds, 0.99)
wait_for_operation_report ==
    /\ pc = "report"
    /\ LET elapsed == now - (deadline - timeout_seconds)
           progress == Progress(elapsed, timeout_seconds)
       IN /\ progress_bar' = progress
          /\ lastProgress' = progress
    /\ status_text' = "Processing document..."
    /\ pc' = "sleep"
    /\ UNCHANGED <<now, chunk_size, chunk_overlap, temp_path, tempFiles,
                   timeout_seconds, deadline, upload_op, current, exc, ret,
                   outcome, uploads, fetches, sleeps, checkedAt, fetchedAt>>
    /\ UNCHANGED <<storeVars, opsVars, viewVars>>

\* Line 115: time.sleep(3)
wait_for_operation_sleep ==
    /\ pc = "sleep"
    /\ now' = now + Backoff
    /\ sleeps' = sleeps + 1
    /\ pc' = "fetch"
    /\ UNCHANGED <<chunk_size, chunk_overlap, temp_path, tempFiles,
                   timeout_seconds, deadline, upload_op, current, progress_bar,
                   status_text, exc, ret, outcome, uploads, fetches,
                   lastProgress, checkedAt, fetchedAt>>
    /\ UNCHANGED <<storeVars, opsVars, viewVars>>

\* Line 116: current = client.operations.get(current); the remote returns the
\* operation's status or raises.
wait_for_operation_fetch ==
    /\ pc = "fetch"
    /\ fetches' = fetches + 1
    /\ fetchedAt' = now
    /\ \/ \E h \in Handles :
            /\ current' = h
            /\ exc' = "none"
            /\ pc' = "loop"
       \/ /\ current' = current
          /\ exc' = "RemoteError"
          /\ pc' = "wait_finally"
    /\ UNCHANGED <<now, chunk_size, chunk_overlap, temp_path, tempFiles,
                   timeout_seconds, deadline, upload_op, progress_bar,
                   status_text, ret, outcome, uploads, sleeps, lastProgress,
                   checkedAt>>
    /\ UNCHANGED <<storeVars, opsVars, viewVars>>

\* Lines 118-127: progress 1.0; an error on the operation is reported and the
\* call returns False, otherwise "Complete!", time.sleep(0.5) (after which the
\* clock, read in whole seconds, shows the same second or the next) and True.
Finish(failed) ==
    /\ pc = "finish"
    /\ progress_bar' = <<1, 1>>
    /\ lastProgress' = <<1, 1>>
    /\ IF failed
         THEN /\ status_text' = "Operation failed"
              /\ outcome' = [kind |-> "IngestFailed",
                             message |-> ErrorMsg(current.error)]
              /\ ret' = "False"
              /\ now' = now
         ELSE /\ status_text' = "Complete!"
              /\ outcome' = [kind |-> "Success", message |-> ""]
              /\ ret' = "True"
              /\ now' \in {now, now + 1}
    /\ pc' = "wait_finally"
    /\ UNCHANGED <<chunk_size, chunk_overlap, temp_path, tempFiles,
                   timeout_seconds, deadline, upload_op, current, exc,
                   uploads, fetches, sleeps, checkedAt, fetchedAt>>
    /\ UNCHANGED <<storeVars, opsVars, viewVars>>

\* A finish that takes a done operation for a success without reading error.
wait_for_operation_finish_ignoring_error == Finish(FALSE)

\* Line 120: if hasattr(current, "error") and current.error
wait_for_operation_finish == Finish(current.error.present)

\* Lines 129-131: finally: both indicators are cleared; the return value or
\* the exception goes on to upload_document.
wait_for_operation_finally ==
    /\ pc = "wait_finally"
    /\ progress_bar' = NoProgress
    /\ status_text' = "empty"
    /\ pc' = IF exc = "none" THEN "finally" ELSE "except"
    /\ UNCHANGED <<now, chunk_size, chunk_overlap, temp_path, tempFiles,
                   timeout_seconds, deadline, upload_op, current, exc, ret,
                   outcome, uploads, fetches, sleeps, lastProgress, checkedAt,
                   fetchedAt>>
    /\ UNCHANGED <<storeVars, opsVars, viewVars>>

\* Lines 256-258: except Exception as e: st.error(...); return False
upload_document_except ==
    /\ pc = "except"
    /\ outcome' = [kind |-> "UploadFailed", message |-> exc]
    /\ exc' = "none"
    /\ ret' = "False"
    /\ pc' = "finally"
    /\ UNCHANGED <<now, chunk_size, chunk_overlap, temp_path, tempFiles,
                   timeout_seconds, deadline, upload_op, current, progress_bar,
                   status_text, uploads, fetches, sleeps, lastProgress,
                   checkedAt, fetchedAt>>
    /\ UNCHANGED <<storeVars, opsVars, viewVars>>

\* Lines 259-261: finally: if temp_path and os.path.exists(temp_path):
\* os.remove(temp_path); then the call returns (or goes where <next> says).
UploadFinally(next) ==
    /\ pc = "finally"
    /\ tempFiles' = IF temp_path # "None" /\ temp_path \in tempFiles
                      THEN tempFiles \ {temp_path}
                      ELSE tempFiles
    /\ pc' = next
    /\ UNCHANGED <<now, chunk_size, chunk_overlap, temp_path, timeout_seconds,
                   deadline, upload_op, current, progress_bar, status_text,
                   exc, ret, outcome, uploads, fetches, sleeps, lastProgress,
                   checkedAt, fetchedAt>>
    /\ UNCHANGED <<storeVars, opsVars, viewVars>>

\* An upload_document that submits the upload again after a failed attempt.
upload_document_finally_retrying ==
    UploadFinally(IF ret = "False" /\ uploads = 1 /\ temp_path # "None"
                    THEN "submit" ELSE "returned")

upload_document_finally == UploadFinally("returned")

\* The clock advances while wait_for_operation runs: between the deadline
\* check's reading of the clock and the next reading (line 110), and while the
\* sleep and the status fetch take longer than the backoff interval.
Tick ==
    /\ pc \in {"report", "fetch"}
    /\ now < MaxClock
    /\ now' = now + 1
    /\ UNCHANGED <<pc, chunk_size, chunk_overlap, temp_path, tempFiles,
                   timeout_seconds, deadline, upload_op, current, progress_bar,
                   status_text, exc, ret, outcome, uploads, fetches, sleeps,
                   lastProgress, checkedAt, fetchedAt>>
    /\ UNCHANGED <<storeVars, opsVars, viewVars>>

----------------------------------------------------------------------------
(* upload_document of src/backend/main.py (POST /upload) *)

\* Lines 115-121: the corpus is resolved, then the bytes are written to
\* /tmp/<filename>.
backend_upload_stage ==
    /\ impl = "backend"
    /\ pc = "idle"
    /\ chunk_size' = BackendChunkSize
    /\ chunk_overlap' = BackendChunkOverlap
    /\ temp_path' = "tmp1"
    /\ \/ /\ tempFiles' = {"tmp1"}              \* written
          /\ exc' = "none"
          /\ pc' = "b_import"
       \/ /\ tempFiles' = {}                    \* get_or_create_corpus raises
          /\ exc' = "RemoteError"
          /\ pc' = "b_except"
       \/ /\ tempFiles' = {"tmp1"}              \* buffer.write raises
          /\ exc' = "OSError"
          /\ pc' = "b_except"
    /\ UNCHANGED <<now, timeout_seconds, deadline, upload_op, current,
                   progress_bar, status_text, ret, outcome, uploads, fetches,
                   sleeps, lastProgress, checkedAt, fetchedAt>>
    /\ UNCHANGED <<storeVars, opsVars, viewVars>>

\* Lines 131-136: rag.import_files(...) returns or raises.
backend_upload_import ==
    /\ pc = "b_import"
    /\ uploads' = uploads + 1
    /\ \/ /\ exc' = "none"
          /\ pc' = "b_remove"
       \/ /\ exc' = "RemoteError"
          /\ pc' = "b_except"
    /\ UNCHANGED <<now, chunk_size, chunk_overlap, temp_path, tempFiles,
                   timeout_seconds, deadline, upload_op, current, progress_bar,
                   status_text, ret, outcome, fetches, sleeps, lastProgress,
                   checkedAt, fetchedAt>>
    /\ UNCHANGED <<storeVars, opsVars, viewVars>>

\* Lines 138-139: os.remove(temp_path); return {"message": ...}
backend_upload_remove ==
    /\ pc = "b_remove"
    /\ tempFiles' = tempFiles \ {temp_path}
    /\ outcome' = [kind |-> "Success", message |-> "Imported"]
    /\ ret' = "True"
    /\ pc' = "returned"
    /\ UNCHANGED <<now, chunk_size, chunk_overlap, temp_path, timeout_seconds,
                   deadline, upload_op, current, progress_bar, status_text,
                   exc, uploads, fetches, sleeps, lastProgress, checkedAt,
                   fetchedAt>>
    /\ UNCHANGED <<storeVars, opsVars, viewVars>>

\* Lines 141-142: except Exception as e: raise HTTPException(500, str(e))
backend_upload_except ==
    /\ pc = "b_except"
    /\ outcome' = [kind |-> "HTTP500", message |-> exc]
    /\ exc' = "none"
    /\ ret' = "False"
    /\ pc' = "returned"
    /\ UNCHANGED <<now, chunk_size, chunk_overlap, temp_path, tempFiles,
                   timeout_seconds, deadline, upload_op, current, progress_bar,
                   status_text, uploads, fetches, sleeps, lastProgress,
                   checkedAt, fetchedAt>>
    /\ UNCHANGED <<storeVars, opsVars, viewVars>>

NextIngest ==
    \/ \E cs \in ChunkSizes, co \in ChunkOverlaps : upload_document_stage(cs, co)
    \/ upload_document_submit
    \/ \E t \in 1..MaxTimeout : wait_for_operation_enter(t)
    \/ wait_for_operation_loop
    \/ wait_for_operation_check
    \/ wait_for_operation_report
    \/ wait_for_operation_sleep
    \/ wait_for_operation_fetch
    \/ wait_for_operation_finish
    \/ wait_for_operation_finally
    \/ upload_document_except
    \/ upload_document_finally
    \/ Tick
    \/ backend_upload_stage
    \/ backend_upload_import
    \/ backend_upload_remove
    \/ backend_upload_except

SpecIngest ==
    InitIngest /\ [][NextIngest]_vars

----------------------------------------------------------------------------
(* The ingestion claims, checked under SpecIngest *)

\* wait_for_operation has been entered by the Streamlit upload_document.
Polling == impl = "app" /\ timeout_seconds > 0

\* wait_for_operation has returned or raised to upload_document.
WaitOver == Polling /\ pc \in {"except", "finally", "returned"}

\* C3: with deadline D after submission and an operation that never reports
\* done, the call fails with Timeout (a call that is over without having seen
\* done ended in Timeout, unless the status fetch itself raised), and a
\* Timeout outcome is only ever produced by a deadline check that read a
\* clock value at or after the deadline, never before it.
C3_TimeoutNotBeforeDeadline ==
    /\ (Polling /\ outcome.kind = "Timeout")
          => (checkedAt >= deadline /\ now >= deadline /\ ~current.done)
    /\ (WaitOver /\ pc # "except" /\ ~current.done)
          => outcome.kind \in {"Timeout", "UploadFailed"}
    /\ (WaitOver /\ ~current.done /\ outcome.kind = "UploadFailed")
          => outcome.message = "RemoteError"

\* A deadline of 5 seconds, an operation that never completed through two
\* status fetches, and the call returned Timeout.
C3_Witness ==
    /\ Polling /\ pc = "returned"
    /\ timeout_seconds = 5
    /\ fetches = 2
    /\ ~current.done
    /\ outcome.kind = "Timeout"
    /\ ret = "False"

\* C4: when the poll loop has observed done == true, the call fails with
\* IngestFailed and the operation's message if the operation carries an
\* error, and otherwise succeeds with progress 1.0 as the last progress
\* reported.
C4_DoneOutcome ==
    (Polling /\ current.done /\ pc \in {"wait_finally", "finally", "returned"})
       => IF current.error.present
            THEN /\ outcome = [kind |-> "IngestFailed",
                               message |-> current.error.text]
                 /\ ret = "False"
            ELSE /\ outcome.kind = "Success"
                 /\ ret = "True"
                 /\ lastProgress = <<1, 1>>

\* The submitted handle and two status fetches reported done=false, the third
\* fetch reported done=true without error, and the call returned success with
\* progress 1.0.
C4_Witness ==
    /\ Polling /\ pc = "returned"
    /\ ~upload_op.done
    /\ fetches = 3
    /\ current.done /\ ~current.error.present
    /\ outcome.kind = "Success"
    /\ lastProgress = <<1, 1>>

\* A deadline check that read a clock value at or past the deadline ended the
\* call with Timeout.
ExpiredCheckTimesOut ==
    (Polling /\ checkedAt >= deadline) => outcome.kind = "Timeout"

\* C5 as stated: a deadline check at or past the deadline fails the call with
\* Timeout, and the deadline check immediately precedes the status fetch, so
\* the call never returns success or IngestFailed on a status fetched at or
\* after the deadline.
C5_NoResultFromLateFetch ==
    /\ ExpiredCheckTimesOut
    /\ (Polling /\ fetches > 0 /\ outcome.kind \in {"Success", "IngestFailed"})
          => fetchedAt < deadline

\* C5 as amended: a deadline check at or past the deadline fails the call with
\* Timeout; the deadline check precedes the backoff sleep and the status fetch
\* follows the sleep, so a status the call returns success or IngestFailed on
\* was fetched at least one backoff interval after a deadline check that read
\* a clock value before the deadline (the fetch itself may be past it).
C5_CheckThenSleepThenFetch ==
    /\ ExpiredCheckTimesOut
    /\ (Polling /\ fetches > 0 /\ outcome.kind \in {"Success", "IngestFailed"})
          => (checkedAt < deadline /\ fetchedAt >= checkedAt + Backoff)
    /\ (Polling /\ pc \in {"report", "sleep", "fetch"}) => checkedAt < deadline

\* The call returned success on a status fetched at or after the deadline.
C5_Witness ==
    /\ Polling /\ pc = "returned"
    /\ fetches > 0
    /\ fetchedAt >= deadline
    /\ outcome.kind = "Success"

\* C6: once the poll loop holds an operation handle with done == true, no
\* further status fetch and no further backoff sleep is performed for that
\* call, the handle returned by the upload submission included.
C6_DoneIsTerminal ==
    [][(Polling /\ current.done) => (fetches' = fetches /\ sleeps' = sleeps)]_vars

\* The upload submission returned a handle that was already done, and the call
\* returned without any status fetch or backoff sleep.
C6_Witness ==
    /\ Polling /\ pc = "returned"
    /\ upload_op.done
    /\ fetches = 0 /\ sleeps = 0
    /\ outcome.kind \in {"Success", "IngestFailed"}

\* C7: after an ingestion call that reached its remote upload has returned or
\* raised (upload success, remote upload exception, operation error, polling
\* timeout), no temporary file it staged still exists.
C7_TempFileReleased ==
    (pc = "returned" /\ uploads > 0) => tempFiles = {}

\* C8: ingest called with chunk_overlap >= chunk_size makes no remote call and
\* fails with InvalidArgument.
C8_OverlapRejected ==
    (impl = "app" /\ pc # "idle" /\ chunk_overlap >= chunk_size)
       => /\ uploads = 0
          /\ fetches = 0
          /\ pc = "returned" => outcome.kind = "InvalidArgument"

\* C9: within one ingestion call the upload is submitted at most once, and
\* after a Timeout or IngestFailed outcome no further upload submission or
\* status fetch is made.
C9_NoRetry ==
    [][/\ uploads' <= 1
       /\ outcome.kind \in {"Timeout", "IngestFailed"}
             => (uploads' = uploads /\ fetches' = fetches)]_vars

\* The call returned IngestFailed after one upload submission.
C9_Witness ==
    /\ Polling /\ pc = "returned"
    /\ outcome.kind = "IngestFailed"
    /\ uploads = 1
    /\ fetches = 1

----------------------------------------------------------------------------
(* The store registry: get_or_create_file_search_store of src/app.py and     *)
(* get_or_create_corpus of src/backend/main.py, against the remote listing.  *)

\* The display name the running program looks for.
PreferredName == IF impl = "app" THEN FILE_SEARCH_DISPLAY_NAME ELSE CORPUS_NAME

\* The display names stores carry in the model.
DisplayNames(i) ==
    {IF i = "app" THEN FILE_SEARCH_DISPLAY_NAME ELSE CORPUS_NAME, "other"}

\* The remote listings a session can start with: identifiers 1..n in listing
\* order, display names not necessarily distinct.
InitialListings(i) ==
    UNION {[1..n -> DisplayNames(i)] : n \in 0..MaxInitStores}

\* A store as the remote service reports it while it holds no value for the
\* document counts and the size.
RemoteStore(name, display_name) ==
    [name |-> name, display_name |-> display_name,
     active_documents_count |-> NoValue, pending_documents_count |-> NoValue,
     failed_documents_count |-> NoValue, size_bytes |-> NoValue]

StoresOf(names) ==
    [k \in 1..Len(names) |-> RemoteStore(k, names[k])]

\* for store in listing: if store.display_name == display_name: return store
\* (the index of the store the loop returns, 0 when it runs to the end)
RECURSIVE FirstMatchFrom(_, _, _)
FirstMatchFrom(listing, display_name, k) ==
    IF k > Len(listing) THEN 0
    ELSE IF listing[k].display_name = display_name THEN k
    ELSE FirstMatchFrom(listing, display_name, k + 1)

FirstMatch(listing, display_name) == FirstMatchFrom(listing, display_name, 1)

\* What a listing call yields to the loop that iterates it: the whole listing,
\* or the stores before the point where the call raised.
Listed(seen) == SubSeq(remoteStores, 1, seen)

\* What one call saw and did.
ResolveEvent(listing, lists, creates, result) ==
    [op |-> "resolve",
     configured |-> FILE_SEARCH_STORE_NAME,
     cached |-> IF impl = "app" THEN store_name ELSE rag_corpus,
     remote |-> remoteStores,
     preferred |-> PreferredName,
     listing |-> listing,
     lists |-> lists,
     creates |-> creates,
     ret |-> result]

\* Lines 61-91 of src/app.py. seen and listOk are the listing call's outcome
\* (how many stores it yielded, and whether it then ended or raised), createOk
\* the create call's. After a failed create st.stop() ends the script run and
\* nothing is returned.
ResolveStore(remember, seen, listOk, createOk) ==
    LET listing == Listed(seen)
        m == FirstMatch(listing, FILE_SEARCH_DISPLAY_NAME)
    IN IF FILE_SEARCH_STORE_NAME # NoStore
         THEN /\ trace' = Append(trace, ResolveEvent(<<>>, 0, 0, FILE_SEARCH_STORE_NAME))
              /\ UNCHANGED <<store_name, remoteStores, nextId>>
       ELSE IF store_name # NoStore
         THEN /\ trace' = Append(trace, ResolveEvent(<<>>, 0, 0, store_name))
              /\ UNCHANGED <<store_name, remoteStores, nextId>>
       ELSE IF m # 0
         THEN /\ store_name' = listing[m].name
              /\ trace' = Append(trace, ResolveEvent(listing, 1, 0, listing[m].name))
              /\ UNCHANGED <<remoteStores, nextId>>
       ELSE IF createOk
         THEN /\ remoteStores' = Append(remoteStores,
                     RemoteStore(nextId, FILE_SEARCH_DISPLAY_NAME))
              /\ nextId' = nextId + 1
              /\ store_name' = IF remember THEN nextId ELSE store_name
              /\ trace' = Append(trace, ResolveEvent(listing, 1, 1, nextId))
       ELSE /\ trace' = Append(trace, ResolveEvent(listing, 1, 1, NoStore))
            /\ UNCHANGED <<store_name, remoteStores, nextId>>

\* A resolve that returns the store it created without caching its name.
get_or_create_file_search_store_forgetful(seen, listOk, createOk) ==
    /\ impl = "app"
    /\ Len(trace) < MaxCalls
    /\ (listOk <=> seen = Len(remoteStores))
    /\ (createOk => nextId <= MaxId)
    /\ ResolveStore(FALSE, seen, listOk, createOk)
    /\ UNCHANGED <<impl, FILE_SEARCH_STORE_NAME, rag_corpus>>
    /\ UNCHANGED <<ingestVars, opsVars, viewVars>>

get_or_create_file_search_store(seen, listOk, createOk) ==
    /\ impl = "app"
    /\ Len(trace) < MaxCalls
    /\ (listOk <=> seen = Len(remoteStores))
    /\ (createOk => nextId <= MaxId)
    /\ ResolveStore(TRUE, seen, listOk, createOk)
    /\ UNCHANGED <<impl, FILE_SEARCH_STORE_NAME, rag_corpus>>
    /\ UNCHANGED <<ingestVars, opsVars, viewVars>>

\* Lines 38-60 of src/backend/main.py: the global rag_corpus is the cache; an
\* exception of the listing or of the create is re-raised (nothing returned).
get_or_create_corpus(seen, listOk, createOk) ==
    /\ impl = "backend"
    /\ Len(trace) < MaxCalls
    /\ (listOk <=> seen = Len(remoteStores))
    /\ (createOk => nextId <= MaxId)
    /\ LET listing == Listed(seen)
           m == FirstMatch(listing, CORPUS_NAME)
       IN IF rag_corpus # NoStore
            THEN /\ trace' = Append(trace, ResolveEvent(<<>>, 0, 0, rag_corpus))
                 /\ UNCHANGED <<rag_corpus, remoteStores, nextId>>
          ELSE IF m # 0
            THEN /\ rag_corpus' = listing[m].name
                 /\ trace' = Append(trace, ResolveEvent(listing, 1, 0, listing[m].name))
                 /\ UNCHANGED <<remoteStores, nextId>>
          ELSE IF ~listOk
            THEN /\ trace' = Append(trace, ResolveEvent(listing, 1, 0, NoStore))
                 /\ UNCHANGED <<rag_corpus, remoteStores, nextId>>
          ELSE IF createOk
            THEN /\ remoteStores' = Append(remoteStores,
                        RemoteStore(nextId, CORPUS_NAME))
                 /\ nextId' = nextId + 1
                 /\ rag_corpus' = nextId
                 /\ trace' = Append(trace, ResolveEvent(listing, 1, 1, nextId))
          ELSE /\ trace' = Append(trace, ResolveEvent(listing, 1, 1, NoStore))
               /\ UNCHANGED <<rag_corpus, remoteStores, nextId>>
    /\ UNCHANGED <<impl, FILE_SEARCH_STORE_NAME, store_name>>
    /\ UNCHANGED <<ingestVars, opsVars, viewVars>>

----------------------------------------------------------------------------
(* The public operations of src/app.py, one call per action. Each makes one  *)
(* remote call, which returns or raises.                                     *)

\* try: <value> ... except Exception as e: st.error(f"<prefix>: {e}");
\* return <failValue>. raised is the remote call's exception ("none": it
\* returned). The result holds what the caller gets back, the error shown and
\* the exception that leaves the operation.
TryExcept(raised, value, failValue, prefix) ==
    IF raised = "none"
      THEN [ret |-> value, error |-> <<>>, escaped |-> "none"]
      ELSE [ret |-> failValue, error |-> <<prefix, raised>>, escaped |-> "none"]

\* The same body without the try: the remote call's exception leaves it.
NoTry(raised, value, failValue, prefix) ==
    IF raised = "none"
      THEN [ret |-> value, error |-> <<>>, escaped |-> "none"]
      ELSE [ret |-> <<"no return">>, error |-> <<>>, escaped |-> raised]

\* The exceptions a remote call can raise.
RemoteErrors == {"unavailable", "not found"}
RemoteOutcomes == {"none"} \cup RemoteErrors

Called(op, raised, result) ==
    [op |-> op, raised |-> raised, ret |-> result.ret, error |-> result.error,
     escaped |-> result.escaped]

\* A default that leaves the reported value as it is.
AsReported(count) == count

\* store.active_documents_count or 0
OrZero(count) == IF count = NoValue \/ count = 0 THEN 0 ELSE count

\* Lines 164-180: the record list_all_stores builds for one store.
StoreEntry(store) ==
    LET active == OrZero(store.active_documents_count)
        pending == OrZero(store.pending_documents_count)
        failed == OrZero(store.failed_documents_count)
    IN [name |-> store.name, display_name |-> store.display_name,
        active_documents |-> active, pending_documents |-> pending,
        failed_documents |-> failed,
        total_documents |-> active + pending + failed,
        size_bytes |-> OrZero(store.size_bytes)]

\* Lines 160-185: one record per store of the listing, [] when it raises.
list_all_stores_result(raised) ==
    TryExcept(raised, [k \in 1..Len(remoteStores) |-> StoreEntry(remoteStores[k])],
              <<>>, "Failed to list stores")

list_all_stores(raised) ==
    /\ impl = "app"
    /\ lastCall' = Called("list_all_stores", raised, list_all_stores_result(raised))
    /\ UNCHANGED <<storeVars, remoteDocs, ingestVars, viewVars>>

\* Lines 188-197: the new store's name, None when the create raises.
create_store_result(raised) ==
    TryExcept(raised, nextId, NoStore, "Failed to create store")

\* The call of create_store and what it does to the remote service.
CreateStoreCall(display_name, raised) ==
    /\ impl = "app"
    /\ raised = "none" => nextId <= MaxId
    /\ lastCall' = Called("create_store", raised, create_store_result(raised))
    /\ IF raised = "none"
         THEN /\ remoteStores' = Append(remoteStores,
                     RemoteStore(nextId, display_name))
              /\ nextId' = nextId + 1
         ELSE UNCHANGED <<remoteStores, nextId>>

create_store(display_name, raised) ==
    /\ CreateStoreCall(display_name, raised)
    /\ UNCHANGED <<impl, FILE_SEARCH_STORE_NAME, store_name, rag_corpus, trace>>
    /\ UNCHANGED <<remoteDocs, ingestVars, viewVars>>

\* Lines 848-856 (and 955-963) of main: the "Create Store" button. A store
\* name was entered; if create_store returns an identifier it becomes the
\* session's store_name.
create_store_button(display_name, raised) ==
    /\ Len(trace) < MaxCalls
    /\ CreateStoreCall(display_name, raised)
    /\ store_name' = IF lastCall'.ret # NoStore THEN lastCall'.ret ELSE store_name
    /\ trace' = Append(trace, [op |-> "create_store_button", ret |-> lastCall'.ret])
    /\ UNCHANGED <<impl, FILE_SEARCH_STORE_NAME, rag_corpus>>
    /\ UNCHANGED <<remoteDocs, ingestVars, viewVars>>

\* Lines 813-816 of main: the selectbox label of a store,
\* f"{display_name} ({total_documents} docs)".
StoreLabel(entry) == <<entry.display_name, entry.total_documents>>

\* The names the selectbox can give: store_options is a dict keyed by label,
\* so of the stores sharing a label only the last one listed can be chosen.
store_options(stores) ==
    {stores[k].name : k \in {i \in 1..Len(stores) :
        \A j \in (i + 1)..Len(stores) : StoreLabel(stores[j]) # StoreLabel(stores[i])}}

\* Lines 803-841 of main, one script run of the sidebar's store selector:
\* list_all_stores, then, if it gave stores, the selected option becomes the
\* session's store_name; if it gave none (an empty or a failed listing),
\* get_or_create_file_search_store runs with its own listing call. selected is
\* the option the selectbox holds; seen, listOk and createOk are the outcomes
\* of the remote calls of the resolve.
main_store_selector(raised, selected, seen, listOk, createOk) ==
    /\ impl = "app"
    /\ Len(trace) < MaxCalls
    /\ lastCall' = Called("list_all_stores", raised, list_all_stores_result(raised))
    /\ LET stores == list_all_stores_result(raised).ret
       IN IF Len(stores) > 0
            THEN /\ selected \in store_options(stores)
                 /\ seen = 0 /\ listOk /\ createOk
                 /\ store_name' = selected
                 /\ trace' = Append(trace, [op |-> "select", ret |-> selected])
                 /\ UNCHANGED <<remoteStores, nextId>>
            ELSE /\ selected = NoStore
                 /\ (listOk <=> seen = Len(remoteStores))
                 /\ (createOk => nextId <= MaxId)
                 /\ ResolveStore(TRUE, seen, listOk, createOk)
    /\ UNCHANGED <<impl, FILE_SEARCH_STORE_NAME, rag_corpus>>
    /\ UNCHANGED <<remoteDocs, ingestVars, viewVars>>

\* The listing without its k-th entry.
Without(seq, k) == SubSeq(seq, 1, k - 1) \o SubSeq(seq, k + 1, Len(seq))

\* Lines 200-207: True, False when the delete raises. The remote deletes the
\* store of that name if it returns.
delete_store_result(raised) ==
    TryExcept(raised, "True", "False", "Failed to delete store")

\* The call of delete_store and what it does to the remote service.
DeleteStoreCall(store, raised) ==
    /\ impl = "app"
    /\ raised = "none" => \E k \in 1..Len(remoteStores) : remoteStores[k].name = store
    /\ lastCall' = Called("delete_store", raised, delete_store_result(raised))
    /\ IF raised = "none"
         THEN remoteStores' =
                Without(remoteStores,
                        CHOOSE k \in 1..Len(remoteStores) : remoteStores[k].name = store)
         ELSE UNCHANGED remoteStores

delete_store(store, raised) ==
    /\ DeleteStoreCall(store, raised)
    /\ UNCHANGED <<impl, FILE_SEARCH_STORE_NAME, store_name, rag_corpus, nextId, trace>>
    /\ UNCHANGED <<remoteDocs, ingestVars, viewVars>>

\* The documents a store can hold at the start: identifiers 1..n in listing
\* order, a display name that may be empty.
InitialDocs ==
    UNION {[1..n -> {"", "notes"}] : n \in 0..MaxDocs}

DocsOf(names) ==
    [k \in 1..Len(names) |-> [name |-> k, display_name |-> names[k]]]

\* Lines 281-292: "display_name": doc.display_name or os.path.basename(doc.name)
DocRecord(doc) ==
    [id |-> doc.name,
     display_name |-> IF doc.display_name # "" THEN <<doc.display_name>>
                      ELSE <<"basename", doc.name>>]

\* Lines 264-297: one record per document, [] when the listing raises.
list_all_documents_mapped(raised) ==
    TryExcept(raised, [k \in 1..Len(remoteDocs) |-> DocRecord(remoteDocs[k])],
              <<>>, "Failed to list documents")

list_all_documents(raised) ==
    /\ lastCall' = Called("list_all_documents", raised,
                          list_all_documents_mapped(raised))
    /\ UNCHANGED <<storeVars, remoteDocs, ingestVars, viewVars>>

HasDoc(doc_id) == \E k \in 1..Len(remoteDocs) : remoteDocs[k].name = doc_id
DocNamed(doc_id) == remoteDocs[CHOOSE k \in 1..Len(remoteDocs) : remoteDocs[k].name = doc_id]

\* Lines 300-328: the document's details, None when the get raises.
get_document_details_result(doc_id, raised) ==
    TryExcept(raised,
              <<[id |-> doc_id, display_name |-> DocNamed(doc_id).display_name]>>,
              <<>>, "Failed to get document details")

get_document_details(doc_id, raised) ==
    /\ raised = "none" => HasDoc(doc_id)
    /\ lastCall' = Called("get_document_details", raised,
                          get_document_details_result(doc_id, raised))
    /\ UNCHANGED <<storeVars, remoteDocs, ingestVars, viewVars>>

\* A delete_document whose remote call is outside any try.
delete_document_unguarded(raised) ==
    NoTry(raised, "True", "False", "Failed to delete document")

\* Lines 331-338: True, False when the delete raises.
delete_document_result(raised) ==
    TryExcept(raised, "True", "False", "Failed to delete document")

delete_document(doc_id, raised) ==
    /\ raised = "none" => HasDoc(doc_id)
    /\ lastCall' = Called("delete_document", raised, delete_document_result(raised))
    /\ IF raised = "none"
         THEN remoteDocs' =
                Without(remoteDocs,
                        CHOOSE k \in 1..Len(remoteDocs) : remoteDocs[k].name = doc_id)
         ELSE UNCHANGED remoteDocs
    /\ UNCHANGED <<storeVars, ingestVars, viewVars>>

----------------------------------------------------------------------------
(* chat_with_documents and extract_citations of src/app.py *)

\* A string of n copies of the character c; the empty string has n = 0.
Str(c, n) == [c |-> c, n |-> n]
EmptyStr == Str("", 0)

\* A slice that keeps the whole string.
Whole(s, k) == s

\* s[:k]
Prefix(s, k) == IF s.n <= k THEN s ELSE Str(s.c, k)

\* The grounding chunks a response can carry: without a retrieved context,
\* with one whose uri, title and text are each set or empty, or with one that
\* lacks the attributes the loop reads.
GroundingChunks ==
    {[rc |-> "none"], [rc |-> "malformed"]}
      \cup {[rc |-> "ok", uri |-> u, title |-> t, text |-> x] :
               u \in {EmptyStr, Str("A", 1)},
               t \in {EmptyStr, Str("B", 1)},
               x \in {EmptyStr, Str("C", 100)}}

\* The generation responses: the candidates attribute is missing, an empty
\* list or holds one candidate, whose grounding metadata is absent or holds
\* up to MaxChunks chunks. Only a grounded candidate carries chunks.
Responses ==
    {[text |-> t, candidates |-> c, grounded |-> FALSE, chunks |-> <<>>] :
        t \in {"", "answer"}, c \in {"missing", "empty", "one"}}
      \cup {[text |-> t, candidates |-> "one", grounded |-> TRUE, chunks |-> ch] :
               t \in {"", "answer"},
               ch \in UNION {[1..n -> GroundingChunks] : n \in 0..MaxChunks}}

\* The responses without grounding chunks.
UngroundedResponses == {r \in Responses : r.chunks = <<>>}

\* The response of a generation that raises is never received.
NoResponse == [text |-> "", candidates |-> "missing", grounded |-> FALSE, chunks |-> <<>>]

\* Lines 349-359: the loop over grounding_chunks from chunk k on, cits
\* being the citations built so far; an exception inside the loop ends it
\* (lines 360-361) and the list built so far is returned.
RECURSIVE CitationsFrom(_, _, _)
CitationsFrom(chunks, k, cits) ==
    IF k > Len(chunks) THEN cits
    ELSE LET chunk == chunks[k]
         IN IF chunk.rc = "none" THEN CitationsFrom(chunks, k + 1, cits)
            ELSE IF chunk.rc = "malformed" THEN cits
            ELSE IF chunk.uri.n > 0
              THEN CitationsFrom(chunks, k + 1, Append(cits, chunk.uri))
            ELSE IF chunk.title.n > 0
              THEN CitationsFrom(chunks, k + 1, Append(cits, chunk.title))
            ELSE IF chunk.text.n > 0
              THEN CitationsFrom(chunks, k + 1,
                       Append(cits, Prefix(chunk.text, CitationTextLimit)))
            ELSE CitationsFrom(chunks, k + 1, cits)

\* Lines 341-363.
extract_citations(resp) ==
    IF resp.candidates = "empty" THEN <<>>       \* candidates[0] raises
    ELSE IF resp.candidates = "missing" THEN <<>>
    ELSE IF ~resp.grounded THEN <<>>
    ELSE CitationsFrom(resp.chunks, 1, <<>>)

FallbackAnswer == "I couldn't generate a response. Please try rephrasing your question."

\* A request that carries both tools.
ChatToolsBoth(use_google_search) == <<"file_search", "google_search">>

\* Lines 370-380: the one tool of the request.
ChatTools(use_google_search) ==
    IF use_google_search THEN <<"google_search">> ELSE <<"file_search">>

\* Lines 382-397: the answer and its citations, (None, []) when the
\* generation raises.
chat_with_documents_result(resp, raised) ==
    TryExcept(raised,
              <<IF resp.text # "" THEN resp.text ELSE FallbackAnswer,
                extract_citations(resp)>>,
              <<"None", <<>>>>, "Chat failed")

\* The call of chat_with_documents: one generate_content request (lines
\* 382-386) carrying the tools of lines 370-380.
ChatCall(use_google_search, resp, raised) ==
    /\ impl = "app"
    /\ raised # "none" => resp = NoResponse
    /\ LET result == chat_with_documents_result(resp, raised)
       IN lastCall' = [op |-> "chat_with_documents", raised |-> raised,
                       ret |-> result.ret, error |-> result.error,
                       escaped |-> result.escaped,
                       tools |-> ChatTools(use_google_search),
                       use_google_search |-> use_google_search,
                       generated |-> resp.text,
                       store |-> store_name, generations |-> 1]

chat_with_documents(use_google_search, resp, raised) ==
    /\ ChatCall(use_google_search, resp, raised)
    /\ UNCHANGED <<storeVars, remoteDocs, ingestVars, viewVars>>

\* upload_document (lines 210-261) as one call: the upload submission raises
\* or returns, then wait_for_operation raises or returns waited; every
\* exception ends in the except clause of lines 256-258. A submitted upload
\* leaves a new document with the remote service.
NewDocId ==
    LET ids == {remoteDocs[k].name : k \in 1..Len(remoteDocs)}
    IN IF ids = {} THEN 1 ELSE 1 + CHOOSE n \in ids : \A j \in ids : j <= n

upload_document_result(uploadRaised, waitRaised, waited) ==
    IF uploadRaised # "none"
      THEN TryExcept(uploadRaised, waited, "False", "Upload failed")
      ELSE TryExcept(waitRaised, waited, "False", "Upload failed")

upload_document(uploadRaised, waitRaised, waited) ==
    /\ uploadRaised = "none" => (Len(remoteDocs) < MaxDocs /\ NewDocId <= MaxDocs + 1)
    /\ uploadRaised # "none" => waitRaised = "none"
    /\ lastCall' = Called("upload_document",
                          IF uploadRaised # "none" THEN uploadRaised ELSE waitRaised,
                          upload_document_result(uploadRaised, waitRaised, waited))
    /\ remoteDocs' =
         IF uploadRaised = "none"
           THEN Append(remoteDocs, [name |-> NewDocId, display_name |-> "notes"])
           ELSE remoteDocs
    /\ UNCHANGED <<storeVars, ingestVars, viewVars>>

----------------------------------------------------------------------------
(* The two session specifications *)

InitStore ==
    /\ InitIngestVars
    /\ InitViewVars
    /\ impl \in {"app", "backend"}
    /\ \E names \in InitialListings(impl) : remoteStores = StoresOf(names)
    /\ nextId = Len(remoteStores) + 1
    /\ FILE_SEARCH_STORE_NAME \in
          IF impl = "app" THEN {NoStore} \cup (1..MaxInitStores) ELSE {NoStore}
    /\ store_name = NoStore
    /\ rag_corpus = NoStore
    /\ trace = <<>>
    /\ remoteDocs = <<>>
    /\ lastCall = NoCall

NextStore ==
    \/ \E seen \in 0..Len(remoteStores), listOk \in BOOLEAN, createOk \in BOOLEAN :
          get_or_create_file_search_store(seen, listOk, createOk)
    \/ \E seen \in 0..Len(remoteStores), listOk \in BOOLEAN, createOk \in BOOLEAN :
          get_or_create_corpus(seen, listOk, createOk)
    \/ \E d \in DisplayNames("app"), r \in RemoteOutcomes : create_store_button(d, r)
    \/ \E r \in RemoteOutcomes, sel \in 0..MaxId, seen \in 0..Len(remoteStores),
          listOk \in BOOLEAN, createOk \in BOOLEAN :
          main_store_selector(r, sel, seen, listOk, createOk)

SpecStore == InitStore /\ [][NextStore]_vars

InitOps ==
    /\ InitIngestVars
    /\ InitViewVars
    /\ impl = "app"
    /\ \E names \in InitialListings("app") : remoteStores = StoresOf(names)
    /\ nextId = Len(remoteStores) + 1
    /\ FILE_SEARCH_STORE_NAME = NoStore
    /\ store_name = NoStore
    /\ rag_corpus = NoStore
    /\ trace = <<>>
    /\ \E names \in InitialDocs : remoteDocs = DocsOf(names)
    /\ lastCall = NoCall

NextOps ==
    \/ \E r \in RemoteOutcomes : list_all_stores(r)
    \/ \E d \in DisplayNames("app"), r \in RemoteOutcomes : create_store(d, r)
    \/ \E sid \in 1..MaxId, r \in RemoteOutcomes : delete_store(sid, r)
    \/ \E u \in RemoteOutcomes, w \in RemoteOutcomes, v \in {"True", "False"} :
          upload_document(u, w, v)
    \/ \E r \in RemoteOutcomes : list_all_documents(r)
    \/ \E d \in 1..(MaxDocs + 1), r \in RemoteOutcomes : get_document_details(d, r)
    \/ \E d \in 1..(MaxDocs + 1), r \in RemoteOutcomes : delete_document(d, r)
    \/ \E g \in BOOLEAN, resp \in UngroundedResponses, r \in RemoteOutcomes :
          chat_with_documents(g, resp, r)

SpecOps == InitOps /\ [][NextOps]_vars

----------------------------------------------------------------------------
(* The store claims, checked under SpecStore *)

\* The resolve calls of the session, in order.
IsResolve(e) == e.op = "resolve"

\* A store of the preferred name existed remotely when the call began.
RemoteMatch(e) ==
    \E k \in 1..Len(e.remote) : e.remote[k].display_name = e.preferred

\* C1: two resolve calls in a row in one session, the first starting with no
\* configured, cached or remote store of the preferred name, and both
\* returning: they return the same store identifier and issue exactly one
\* remote create call between them (the first call's result is cached and
\* reused).
C1_CreateOnce ==
    \A i \in 1..(Len(trace) - 1) :
       LET a == trace[i]
           b == trace[i + 1]
       IN (/\ IsResolve(a) /\ IsResolve(b)
           /\ a.configured = NoStore /\ a.cached = NoStore /\ ~RemoteMatch(a)
           /\ a.ret # NoStore /\ b.ret # NoStore)
            => (/\ b.ret = a.ret
                /\ a.creates + b.creates = 1
                /\ b.cached = a.ret)

\* Two resolve calls were made from a session with nothing configured, cached
\* or remote of that name; the first created a store and the second returned
\* the same identifier without creating.
C1_Witness ==
    /\ Len(trace) >= 2
    /\ IsResolve(trace[1]) /\ IsResolve(trace[2])
    /\ trace[1].configured = NoStore /\ trace[1].cached = NoStore
    /\ ~RemoteMatch(trace[1])
    /\ trace[1].creates = 1 /\ trace[1].ret # NoStore
    /\ trace[2].creates = 0 /\ trace[2].ret = trace[1].ret

\* The store the call returned is the first of the given stores whose display
\* name is the preferred one.
IsFirstMatch(e, stores) ==
    \E k \in 1..Len(stores) :
       /\ stores[k].display_name = e.preferred
       /\ \A j \in 1..(k - 1) : stores[j].display_name # e.preferred
       /\ e.ret = stores[k].name

HasMatch(e, stores) ==
    \E k \in 1..Len(stores) : stores[k].display_name = e.preferred

\* The precedence of one call, the third source being the given stores.
PrecedenceOver(e, stores) ==
    IF e.configured # NoStore
      THEN e.ret = e.configured /\ e.lists = 0 /\ e.creates = 0
    ELSE IF e.cached # NoStore
      THEN e.ret = e.cached /\ e.lists = 0 /\ e.creates = 0
    ELSE IF HasMatch(e, stores)
      THEN IsFirstMatch(e, stores) /\ e.lists = 1 /\ e.creates = 0
    ELSE /\ e.lists = 1 /\ e.creates = 1
         /\ e.ret # NoStore =>
              \A k \in 1..Len(e.remote) : e.remote[k].name # e.ret

\* C2: every resolve call of the Streamlit application picks its result by
\* strict precedence: the configured identifier if set, else the identifier
\* cached in the session, else the first store in remote listing order whose
\* display name is the preferred name, else a newly created store; with a
\* configured or cached identifier no listing and no create call is made, and
\* with a remote store of the preferred name no create call is made.
C2_Precedence ==
    \A i \in 1..Len(trace) :
       (IsResolve(trace[i]) /\ trace[i].preferred = FILE_SEARCH_DISPLAY_NAME)
          => PrecedenceOver(trace[i], trace[i].remote)

\* The same precedence over the stores the listing call yielded before it
\* ended or raised: what the loop of lines 74-78 saw.
PrecedenceOverObtainedListing ==
    \A i \in 1..Len(trace) :
       (IsResolve(trace[i]) /\ trace[i].preferred = FILE_SEARCH_DISPLAY_NAME)
          => PrecedenceOver(trace[i], trace[i].listing)

----------------------------------------------------------------------------
(* The error-boundary claim, checked under SpecOps *)

\* What each public operation returns when its remote call fails, and the
\* prefix of the error it shows.
FailureValue(op) ==
    CASE op = "list_all_stores" -> <<>>
      [] op = "create_store" -> NoStore
      [] op = "delete_store" -> "False"
      [] op = "upload_document" -> "False"
      [] op = "list_all_documents" -> <<>>
      [] op = "get_document_details" -> <<>>
      [] op = "delete_document" -> "False"
      [] op = "chat_with_documents" -> <<"None", <<>>>>

\* C10: every remote-call failure inside a public operation is caught at that
\* operation's boundary and turned into an error outcome for the caller (its
\* failure value, and an error message that carries the remote's message); no
\* remote exception leaves a public operation.
C10_RemoteFailuresCaught ==
    lastCall.op # "none" =>
       /\ lastCall.escaped = "none"
       /\ lastCall.raised # "none" =>
            /\ Len(lastCall.error) = 2
            /\ lastCall.error[2] = lastCall.raised
            /\ lastCall.ret = FailureValue(lastCall.op)

\* delete_document was called, its remote call raised, and the caller got
\* False with the error shown.
C10_Witness ==
    /\ lastCall.op = "delete_document"
    /\ lastCall.raised = "not found"
    /\ lastCall.ret = "False"
    /\ lastCall.error = <<"Failed to delete document", "not found">>
    /\ lastCall.escaped = "none"

----------------------------------------------------------------------------
(* The chat tab of main (src/app.py lines 966-1023) and the backend's        *)
(* POST /chat (src/backend/main.py lines 74-111)                             *)

\* What the user types into st.chat_input.
Prompts == {"hi", "why"}

\* One entry of st.session_state.messages (a user entry has no citations).
Message(role, content, cits) == [role |-> role, content |-> content, citations |-> cits]

\* A history that forgets what it held when something is added.
Replaced(history, added) == added

\* st.session_state.messages.append, for each of the entries added in order.
Appended(history, added) == history \o added

\* Lines 990-1018: the prompt is appended, chat_with_documents is called, and
\* if it returned a text the assistant's entry is appended too.
chat_input(prompt, use_google_search, resp, raised) ==
    /\ Len(messages) + 2 <= 2 * MaxCalls
    /\ ChatCall(use_google_search, resp, raised)
    /\ LET response_text == lastCall'.ret[1]
           user == Message("user", prompt, <<>>)
       IN messages' =
            IF response_text # "None" /\ response_text # ""
              THEN Appended(messages,
                            <<user, Message("assistant", response_text, lastCall'.ret[2])>>)
              ELSE Appended(messages, <<user>>)
    /\ UNCHANGED <<storeVars, remoteDocs, ingestVars, step, response, citations, pageVars>>

\* Lines 1020-1023: the "Clear Chat" button, shown when there are messages.
clear_chat ==
    /\ impl = "app"
    /\ messages # <<>>
    /\ messages' = <<>>
    /\ UNCHANGED <<storeVars, opsVars, ingestVars, step, response, citations, pageVars>>

\* Lines 99-108 and 110-111 of the backend: response.text is returned as it
\* is, with no citations; reading it raises when the response holds no
\* candidate, and every exception becomes an HTTP 500 with its message.
backend_chat_result(resp, raised) ==
    IF raised # "none"
      THEN [ret |-> <<"None", <<>>>>, error |-> <<"HTTP 500", raised>>, escaped |-> "none"]
    ELSE IF resp.candidates # "one"
      THEN [ret |-> <<"None", <<>>>>, error |-> <<"HTTP 500", "no text">>, escaped |-> "none"]
    ELSE [ret |-> <<resp.text, <<>>>>, error |-> <<>>, escaped |-> "none"]

\* Lines 74-111 of the backend: one retrieval tool over the corpus (lines
\* 80-97) and one generate_content call (line 100).
backend_chat(resp, raised) ==
    /\ impl = "backend"
    /\ raised # "none" => resp = NoResponse
    /\ LET result == backend_chat_result(resp, raised)
       IN lastCall' = [op |-> "chat", raised |-> raised,
                       ret |-> result.ret, error |-> result.error,
                       escaped |-> result.escaped,
                       tools |-> <<"rag_retrieval">>,
                       use_google_search |-> FALSE,
                       generated |-> resp.text,
                       store |-> rag_corpus, generations |-> 1]
    /\ UNCHANGED <<storeVars, remoteDocs, ingestVars, viewVars>>

\* A session with an active store (a corpus for the backend) and no history.
InitChat ==
    /\ InitIngestVars
    /\ InitViewVars
    /\ impl \in {"app", "backend"}
    /\ remoteStores = StoresOf(<<PreferredName>>)
    /\ nextId = 2
    /\ FILE_SEARCH_STORE_NAME = NoStore
    /\ store_name = IF impl = "app" THEN 1 ELSE NoStore
    /\ rag_corpus = IF impl = "backend" THEN 1 ELSE NoStore
    /\ trace = <<>>
    /\ remoteDocs = <<>>
    /\ lastCall = NoCall

NextChat ==
    \/ \E p \in Prompts, g \in BOOLEAN, resp \in UngroundedResponses,
          r \in RemoteOutcomes : chat_input(p, g, resp, r)
    \/ clear_chat
    \/ \E resp \in UngroundedResponses, r \in RemoteOutcomes : backend_chat(resp, r)

SpecChat == InitChat /\ [][NextChat]_vars

----------------------------------------------------------------------------
(* The chat claims, checked under SpecChat *)

IsAsk == lastCall.op \in {"chat_with_documents", "chat"}

\* The tools that retrieve from the store (the corpus).
StoreScoped == {"file_search", "rag_retrieval"}

\* C11: each ask call attaches exactly one retrieval tool to its single
\* generation request: store-scoped retrieval when external search is off,
\* web search when it is on, never both and never neither; and it invokes
\* the generative service exactly once.
C11_OneToolOneGeneration ==
    IsAsk =>
       /\ Len(lastCall.tools) = 1
       /\ lastCall.use_google_search => lastCall.tools[1] = "google_search"
       /\ ~lastCall.use_google_search => lastCall.tools[1] \in StoreScoped
       /\ lastCall.generations = 1

\* An ask with external search on went out with the web search tool alone.
C11_Witness ==
    /\ lastCall.op = "chat_with_documents"
    /\ lastCall.use_google_search
    /\ lastCall.tools = <<"google_search">>
    /\ lastCall.raised = "none"

\* C12: whenever the generative service returns successfully with empty
\* generated text, ask returns the fixed fallback message as the answer; a
\* successful ask never returns an empty or null answer.
C12_FallbackAnswer ==
    (IsAsk /\ lastCall.error = <<>>) =>
       /\ lastCall.ret[1] # ""
       /\ lastCall.ret[1] # "None"
       /\ lastCall.generated = "" => lastCall.ret[1] = FallbackAnswer

\* h is an initial part of g.
IsPrefix(h, g) == Len(h) <= Len(g) /\ SubSeq(g, 1, Len(h)) = h

\* C20: the chat history is append-only: every step other than the clear
\* action keeps each existing turn at its position with its content and only
\* adds turns at the end, whether the ask succeeded or failed.
C20_HistoryAppendOnly ==
    [][clear_chat \/ IsPrefix(messages, messages')]_vars

\* A failed ask left its prompt in the history and a later ask that succeeded
\* added its two turns after it.
C20_Witness ==
    /\ Len(messages) = 3
    /\ messages[1].role = "user" /\ messages[2].role = "user"
    /\ messages[3].role = "assistant"
    /\ lastCall.op = "chat_with_documents" /\ lastCall.raised = "none"

----------------------------------------------------------------------------
(* extract_citations applied to each generation response                     *)

InitExtract ==
    /\ InitIngestVars
    /\ InitSession
    /\ impl = "app"
    /\ remoteStores = <<>>
    /\ nextId = 1
    /\ trace = <<>>
    /\ remoteDocs = <<>>
    /\ lastCall = NoCall
    /\ messages = <<>>
    /\ step = "input"
    /\ response \in Responses
    /\ citations = <<>>
    /\ documents = <<>>
    /\ listed = <<>>
    /\ shown = [state_filter |-> "All", search_term |-> <<>>,
                sort_by |-> "Upload Time (Newest)"]
    /\ filtered_docs = <<>>
    /\ refiltered = <<>>
    /\ confirm_delete_store = NoStore
    /\ deleted = {}

\* Line 392: citations = extract_citations(response)
extract_citations_call ==
    /\ step = "input"
    /\ citations' = extract_citations(response)
    /\ step' = "returned"
    /\ UNCHANGED <<storeVars, opsVars, ingestVars, messages, response, pageVars>>

NextExtract == extract_citations_call

SpecExtract == InitExtract /\ [][NextExtract]_vars

\* The response has a first candidate with grounding metadata.
Grounded(resp) == resp.candidates = "one" /\ resp.grounded

\* Some chunk's retrieved context lacks a field the loop reads.
HasMalformedChunk(resp) ==
    \E k \in 1..Len(resp.chunks) : resp.chunks[k].rc = "malformed"

\* The reference of one well-formed chunk: its URI if present, else its
\* title, else the first 80 characters of its text; the empty string when it
\* has none of the three.
Reference(chunk) ==
    IF chunk.rc = "none" THEN EmptyStr
    ELSE IF chunk.uri.n > 0 THEN chunk.uri
    ELSE IF chunk.title.n > 0 THEN chunk.title
    ELSE IF chunk.text.n <= CitationTextLimit THEN chunk.text
    ELSE Str(chunk.text.c, CitationTextLimit)

HasReference(ref) == ref.n > 0

References(chunks) ==
    SelectSeq([k \in 1..Len(chunks) |-> Reference(chunks[k])], HasReference)

\* C13: for a response whose grounding metadata is well-formed, extract
\* returns exactly the references of the first candidate's grounding chunks
\* in response order: each chunk's URI if present, else its title, else the
\* first 80 characters of its text, chunks with none of the three dropped and
\* repeated references kept.
C13_ReferencesInOrder ==
    (step = "returned" /\ Grounded(response) /\ ~HasMalformedChunk(response))
       => citations = References(response.chunks)

\* The chunks [{uri: A}, {title: B}, {text: C x 100}] gave [A, B, C x 80].
C13_Witness ==
    /\ step = "returned"
    /\ Grounded(response)
    /\ response.chunks =
         <<[rc |-> "ok", uri |-> Str("A", 1), title |-> EmptyStr, text |-> EmptyStr],
           [rc |-> "ok", uri |-> EmptyStr, title |-> Str("B", 1), text |-> EmptyStr],
           [rc |-> "ok", uri |-> EmptyStr, title |-> EmptyStr, text |-> Str("C", 100)]>>
    /\ citations = <<Str("A", 1), Str("B", 1), Str("C", 80)>>

\* C14: extract never fails, and whenever the grounding metadata is absent
\* or malformed anywhere (no candidates, an empty candidate list, no
\* grounding metadata, or a chunk whose retrieved context lacks a field, even
\* after well-formed chunks) the result is the empty sequence.
C14_MalformedGivesEmpty ==
    (step = "returned" /\ (~Grounded(response) \/ HasMalformedChunk(response)))
       => citations = <<>>

----------------------------------------------------------------------------
(* The filter and sort of render_store_files_view (src/app.py lines 575-597) *)
(* and of render_document_inventory (lines 694-716), which are the same code *)

\* Display names, as the sequences of their character codes.
Zeta == <<90, 101, 116, 97>>
alpha == <<97, 108, 112, 104, 97>>
Beta == <<66, 101, 116, 97>>
PageNames == {Zeta, alpha, Beta}

\* str.lower()
LowerCode(c) == IF c >= 65 /\ c <= 90 THEN c + 32 ELSE c
Lower(str) == [k \in 1..Len(str) |-> LowerCode(str[k])]

\* a < b on Python strings: by character code, a proper prefix first.
RECURSIVE StrLess(_, _)
StrLess(a, b) ==
    IF b = <<>> THEN FALSE
    ELSE IF a = <<>> THEN TRUE
    ELSE IF Head(a) # Head(b) THEN Head(a) < Head(b)
    ELSE StrLess(Tail(a), Tail(b))

\* needle in hay
Contains(hay, needle) ==
    \E i \in 1..(Len(hay) - Len(needle) + 1) :
       SubSeq(hay, i, i + Len(needle) - 1) = needle

\* The documents list_all_documents can return to a page: the larger file is
\* the older one; identifiers follow the listing order.
PageDocs ==
    {[display_name |-> n, state |-> s, size_bytes |-> z, create_time |-> 3 - z] :
        n \in PageNames, s \in {"STATE_ACTIVE", "STATE_FAILED"}, z \in {1, 2}}

Listings == UNION {[1..n -> PageDocs] : n \in 1..MaxShown}

WithIds(docs) ==
    [k \in 1..Len(docs) |->
        [id |-> k, display_name |-> docs[k].display_name, state |-> docs[k].state,
         size_bytes |-> docs[k].size_bytes, create_time |-> docs[k].create_time]]

\* The choices of the three widgets: "ET" as the search term.
StateFilters == {"All", "STATE_ACTIVE"}
SearchTerms == {<<>>, <<69, 84>>}
SortKeys == {"Upload Time (Newest)", "Upload Time (Oldest)", "Name", "Size"}

\* Lines 696-705: the two list comprehensions, each applied only when its
\* widget is set.
Filtered(docs, state_filter, search_term) ==
    LET InState(d) == d.state = state_filter
        Matches(d) == Contains(Lower(d.display_name), Lower(search_term))
        byState == IF state_filter # "All" THEN SelectSeq(docs, InState) ELSE docs
    IN IF search_term # <<>> THEN SelectSeq(byState, Matches) ELSE byState

\* With no filter set filtered_docs is the list documents itself (line 694).
SameList(state_filter, search_term) == state_filter = "All" /\ search_term = <<>>

\* Lines 708-714: x comes strictly before y under the key of the sort.
Precedes(x, y, sort_by) ==
    CASE sort_by = "Upload Time (Newest)" -> x.create_time > y.create_time
      [] sort_by = "Upload Time (Oldest)" -> x.create_time < y.create_time
      [] sort_by = "Name" -> StrLess(x.display_name, y.display_name)
      [] sort_by = "Size" -> x.size_bytes > y.size_bytes

\* list.sort is stable, with reverse=True too: an element goes after every
\* element it does not strictly precede.
RECURSIVE Inserted(_, _, _)
Inserted(sorted, x, sort_by) ==
    IF sorted = <<>> THEN <<x>>
    ELSE IF Precedes(x, Head(sorted), sort_by) THEN <<x>> \o sorted
    ELSE <<Head(sorted)>> \o Inserted(Tail(sorted), x, sort_by)

\* An insertion that puts an element before the elements of equal key.
RECURSIVE InsertedFirst(_, _, _)
InsertedFirst(sorted, x, sort_by) ==
    IF sorted = <<>> THEN <<x>>
    ELSE IF ~Precedes(Head(sorted), x, sort_by) THEN <<x>> \o sorted
    ELSE <<Head(sorted)>> \o InsertedFirst(Tail(sorted), x, sort_by)

RECURSIVE SortedTiesReversedFrom(_, _, _)
SortedTiesReversedFrom(docs, k, sort_by) ==
    IF k = 0 THEN <<>>
    ELSE InsertedFirst(SortedTiesReversedFrom(docs, k - 1, sort_by), docs[k], sort_by)

\* A sort that is not stable: elements of equal key come out in reverse.
SortedTiesReversed(docs, sort_by) == SortedTiesReversedFrom(docs, Len(docs), sort_by)

RECURSIVE SortedFrom(_, _, _)
SortedFrom(docs, k, sort_by) ==
    IF k = 0 THEN <<>>
    ELSE Inserted(SortedFrom(docs, k - 1, sort_by), docs[k], sort_by)

\* filtered_docs.sort(key=..., reverse=...)
Sorted(docs, sort_by) == SortedFrom(docs, Len(docs), sort_by)

\* Lines 694-714 on a non-empty list: filtered_docs after the sort, and the
\* list documents, which the sort has reordered if it is the same list.
PageRender(page, state_filter, search_term, sort_by) ==
    /\ impl = "app"
    /\ step = "input"
    /\ documents # <<>>
    /\ filtered_docs' = Sorted(Filtered(documents, state_filter, search_term), sort_by)
    /\ documents' = IF SameList(state_filter, search_term) THEN filtered_docs'
                                                           ELSE documents
    /\ shown' = [page |-> page, state_filter |-> state_filter,
                 search_term |-> search_term, sort_by |-> sort_by]
    /\ step' = "applied"
    /\ UNCHANGED <<storeVars, opsVars, ingestVars, messages, response, citations,
                   listed, refiltered, overviewVars>>

render_store_files_view(state_filter, search_term, sort_by) ==
    PageRender("render_store_files_view", state_filter, search_term, sort_by)

render_document_inventory(state_filter, search_term, sort_by) ==
    PageRender("render_document_inventory", state_filter, search_term, sort_by)

\* The same filter and sort, with the same widget values, given the
\* filtered_docs it produced; filtered_docs is kept as it was produced.
filter_and_sort_again ==
    /\ step = "applied"
    /\ refiltered' = Sorted(Filtered(filtered_docs, shown.state_filter, shown.search_term),
                            shown.sort_by)
    /\ step' = "reapplied"
    /\ UNCHANGED <<storeVars, opsVars, ingestVars, messages, response, citations,
                   documents, listed, shown, filtered_docs, overviewVars>>

InitPage ==
    /\ InitIngestVars
    /\ InitSession
    /\ impl = "app"
    /\ remoteStores = <<>>
    /\ nextId = 1
    /\ trace = <<>>
    /\ remoteDocs = <<>>
    /\ lastCall = NoCall
    /\ messages = <<>>
    /\ response = NoResponse
    /\ citations = <<>>
    /\ step = "input"
    /\ \E docs \in Listings : documents = WithIds(docs)
    /\ listed = documents
    /\ shown = [state_filter |-> "All", search_term |-> <<>>,
                sort_by |-> "Upload Time (Newest)"]
    /\ filtered_docs = <<>>
    /\ refiltered = <<>>
    /\ confirm_delete_store = NoStore
    /\ deleted = {}

NextPage ==
    \/ \E f \in StateFilters, t \in SearchTerms, k \in SortKeys :
          render_store_files_view(f, t, k)
    \/ \E f \in StateFilters, t \in SearchTerms, k \in SortKeys :
          render_document_inventory(f, t, k)
    \/ filter_and_sort_again

SpecPage == InitPage /\ [][NextPage]_vars

----------------------------------------------------------------------------
(* The page claims, checked under SpecPage *)

\* C16: the filter and sort never changes the document list it is given: for
\* every state filter, search term and sort key, no filter at all included,
\* the list holds the same documents in the same order afterwards.
C16_InputNotMutated ==
    step # "input" => documents = listed

\* C17: sorting by name orders the documents by display name without regard
\* to case, so that "Zeta", "alpha", "Beta" come out as "alpha", "Beta",
\* "Zeta": no document shown has a display name that, lowercased, comes
\* before that of a document shown earlier.
C17_NameSortIgnoresCase ==
    (step # "input" /\ shown.sort_by = "Name") =>
       \A i \in 1..Len(filtered_docs) : \A j \in (i + 1)..Len(filtered_docs) :
          ~StrLess(Lower(filtered_docs[j].display_name),
                   Lower(filtered_docs[i].display_name))

\* C18: the filter and sort is idempotent: given its own output with the
\* same state filter, search term and sort key it returns the same documents
\* in the same order, documents of equal key included.
C18_Idempotent ==
    step = "reapplied" => refiltered = filtered_docs

\* Two documents of equal size were shown in listing order after a third,
\* larger one listed last, and the second application kept them so.
C18_Witness ==
    /\ step = "reapplied"
    /\ shown.sort_by = "Size"
    /\ Len(filtered_docs) = 3
    /\ filtered_docs[1].id = 3
    /\ filtered_docs[2].id = 1 /\ filtered_docs[3].id = 2
    /\ filtered_docs[2].size_bytes = filtered_docs[3].size_bytes
    /\ refiltered = filtered_docs

----------------------------------------------------------------------------
(* The progress claim, checked under SpecIngest *)

\* The fraction p is the smaller of elapsed / timeout and 0.99.
IsCappedFraction(p, elapsed, timeout) ==
    IF elapsed * 100 <= 99 * timeout
      THEN p[1] * timeout = elapsed * p[2]
      ELSE p[1] * 100 = 99 * p[2]

\* C19: while the operation is not done every progress value the poll loop
\* reports is min(elapsed / D, 0.99), so it is at most 0.99; progress 1.0 is
\* reported only after a done status has been observed. (The clock does not
\* move between the report and the sleep that follows it.)
C19_ProgressCapped ==
    /\ pc = "sleep" =>
          /\ ~current.done
          /\ IsCappedFraction(lastProgress, now - (deadline - timeout_seconds),
                              timeout_seconds)
    /\ (lastProgress # NoProgress /\ lastProgress[1] * 100 > 99 * lastProgress[2]) =>
          /\ lastProgress = <<1, 1>>
          /\ current # NoHandle
          /\ current.done

\* The clock passed the deadline between the check and the report, and the
\* loop reported 0.99 for an operation that was not done.
C19_Witness ==
    /\ pc = "sleep"
    /\ now >= deadline
    /\ lastProgress = <<99, 100>>
    /\ ~current.done

----------------------------------------------------------------------------
(* get_store_stats and list_all_stores of src/app.py over the counts the     *)
(* remote service reports                                                    *)

HasStore(store) == \E k \in 1..Len(remoteStores) : remoteStores[k].name = store
StoreNamed(store) ==
    remoteStores[CHOOSE k \in 1..Len(remoteStores) : remoteStores[k].name = store]

\* Lines 137-152: the record get_store_stats builds.
StoreStats(store) ==
    LET active == OrZero(store.active_documents_count)
        pending == OrZero(store.pending_documents_count)
        failed == OrZero(store.failed_documents_count)
    IN [name |-> store.name, display_name |-> store.display_name,
        active_documents |-> active, pending_documents |-> pending,
        failed_documents |-> failed,
        total_documents |-> active + pending + failed,
        size_bytes |-> OrZero(store.size_bytes)]

\* Lines 134-157: the store's record, {} when the get raises.
get_store_stats(store, raised) ==
    /\ impl = "app"
    /\ raised = "none" => HasStore(store)
    /\ lastCall' =
         [op |-> "get_store_stats", raised |-> raised, store |-> store] @@
         IF raised = "none"
           THEN TryExcept(raised, StoreStats(StoreNamed(store)), <<>>,
                          "Failed to get store stats")
           ELSE TryExcept(raised, <<>>, <<>>, "Failed to get store stats")
    /\ UNCHANGED <<storeVars, remoteDocs, ingestVars, viewVars>>

\* What the remote reports for a count or a size: no value, or MaxCount; for
\* the active count also a zero.
Reported == {NoValue, MaxCount}

ReportedStores ==
    {[display_name |-> "other",
      active_documents_count |-> a, pending_documents_count |-> q,
      failed_documents_count |-> f, size_bytes |-> z] :
        a \in Reported \cup {0}, q \in Reported, f \in Reported, z \in Reported}

InitStats ==
    /\ InitIngestVars
    /\ InitViewVars
    /\ impl = "app"
    /\ FILE_SEARCH_STORE_NAME = NoStore
    /\ store_name = NoStore
    /\ rag_corpus = NoStore
    /\ \E reported \in UNION {[1..n -> ReportedStores] : n \in 0..MaxInitStores} :
          remoteStores = [k \in 1..Len(reported) |-> [name |-> k] @@ reported[k]]
    /\ nextId = Len(remoteStores) + 1
    /\ trace = <<>>
    /\ remoteDocs = <<>>
    /\ lastCall = NoCall

NextStats ==
    \/ \E store \in 1..MaxInitStores, r \in RemoteOutcomes : get_store_stats(store, r)
    \/ \E r \in RemoteOutcomes : list_all_stores(r)

SpecStats == InitStats /\ [][NextStats]_vars

\* The record's counts add up and stand for what the remote reported for the
\* store, with 0 where it reported no value.
Stands(value, reported) ==
    /\ value \in Nat
    /\ reported = NoValue => value = 0
    /\ reported # NoValue => value = reported

RecordOf(rec, store) ==
    /\ rec.name = store.name
    /\ Stands(rec.active_documents, store.active_documents_count)
    /\ Stands(rec.pending_documents, store.pending_documents_count)
    /\ Stands(rec.failed_documents, store.failed_documents_count)
    /\ Stands(rec.size_bytes, store.size_bytes)
    /\ rec.active_documents + rec.pending_documents + rec.failed_documents
          = rec.total_documents

\* C15: every store record the registry produces, the single-store stats and
\* each entry of the store listing, has active + pending + failed = total,
\* the three counts and the size being numbers, 0 where the remote service
\* reports no value.
C15_CountsAddUp ==
    /\ (lastCall.op = "get_store_stats" /\ lastCall.raised = "none") =>
          RecordOf(lastCall.ret, StoreNamed(lastCall.store))
    /\ (lastCall.op = "list_all_stores" /\ lastCall.raised = "none") =>
          /\ Len(lastCall.ret) = Len(remoteStores)
          /\ \A k \in 1..Len(remoteStores) : RecordOf(lastCall.ret[k], remoteStores[k])

\* The stats of a store for which the remote reported no active count and
\* MaxCount pending and failed documents: 0 active, 2 * MaxCount in total.
C15_Witness ==
    /\ lastCall.op = "get_store_stats" /\ lastCall.raised = "none"
    /\ StoreNamed(lastCall.store).active_documents_count = NoValue
    /\ StoreNamed(lastCall.store).size_bytes = NoValue
    /\ lastCall.ret.active_documents = 0
    /\ lastCall.ret.size_bytes = 0
    /\ lastCall.ret.total_documents = 2 * MaxCount

----------------------------------------------------------------------------
(* The claim on creating only after a completed listing, checked under     *)
(* SpecStore                                                                *)

\* C21: a resolve call issues a remote create only after a listing that
\* completed and held no store of the preferred display name; when the
\* listing call raises no store is created, so a store of that name that
\* exists remotely is never duplicated. The resolve calls made from main after
\* a failed list_all_stores are among the calls of the trace.
C21_CreateOnlyAfterCompletedListing ==
    \A i \in 1..Len(trace) :
       (IsResolve(trace[i]) /\ trace[i].creates = 1)
         => (/\ trace[i].lists = 1
             /\ trace[i].listing = trace[i].remote
             /\ ~RemoteMatch(trace[i]))

----------------------------------------------------------------------------
(* The "All Stores" overview of main (src/app.py lines 437-518) together    *)
(* with the sidebar's store selector and the "Create Store" button: the     *)
(* session's store_name and confirm_delete_store across selections,         *)
(* creations and deletions.                                                 *)

\* The listing of the page holds a store of that name.
IsListed(store) == \E k \in 1..Len(remoteStores) : remoteStores[k].name = store

\* Lines 441-445 and 492-494: the listing gave stores and "Delete Store" was
\* clicked on one of them.
delete_store_button(store) ==
    /\ impl = "app"
    /\ IsListed(store)
    /\ lastCall' = Called("list_all_stores", "none", list_all_stores_result("none"))
    /\ confirm_delete_store' = store
    /\ UNCHANGED <<storeVars, remoteDocs, ingestVars, deleted>>
    /\ UNCHANGED <<messages, step, response, citations,
                   documents, listed, shown, filtered_docs, refiltered>>

\* "Yes, Delete" with a handler that leaves st.session_state.store_name as it
\* is after the delete.
confirm_delete_yes_keeping_active(raised) ==
    LET store == confirm_delete_store
    IN /\ store # NoStore
       /\ IsListed(store)
       /\ raised = "none" => Len(trace) < MaxCalls
       /\ DeleteStoreCall(store, raised)
       /\ IF lastCall'.ret = "True"
            THEN /\ confirm_delete_store' = NoStore
                 /\ store_name' = store_name
                 /\ deleted' = deleted \cup {store}
                 /\ trace' = Append(trace, [op |-> "delete_store", store |-> store,
                                            cached |-> store_name, ret |-> "True"])
            ELSE UNCHANGED <<confirm_delete_store, store_name, deleted, trace>>
       /\ UNCHANGED <<impl, FILE_SEARCH_STORE_NAME, rag_corpus, nextId>>
       /\ UNCHANGED <<remoteDocs, ingestVars>>
       /\ UNCHANGED <<messages, step, response, citations,
                      documents, listed, shown, filtered_docs, refiltered>>

\* Lines 497-513: the store whose deletion is pending is on the page and
\* "Yes, Delete" was clicked. If delete_store returns True the confirmation is
\* dropped, and so is store_name when it names the deleted store; if it
\* returns False nothing else happens.
confirm_delete_yes(raised) ==
    LET store == confirm_delete_store
    IN /\ store # NoStore
       /\ IsListed(store)
       /\ raised = "none" => Len(trace) < MaxCalls
       /\ DeleteStoreCall(store, raised)
       /\ IF lastCall'.ret = "True"
            THEN /\ confirm_delete_store' = NoStore
                 /\ store_name' = IF store_name = store THEN NoStore ELSE store_name
                 /\ deleted' = deleted \cup {store}
                 /\ trace' = Append(trace, [op |-> "delete_store", store |-> store,
                                            cached |-> store_name, ret |-> "True"])
            ELSE UNCHANGED <<confirm_delete_store, store_name, deleted, trace>>
       /\ UNCHANGED <<impl, FILE_SEARCH_STORE_NAME, rag_corpus, nextId>>
       /\ UNCHANGED <<remoteDocs, ingestVars>>
       /\ UNCHANGED <<messages, step, response, citations,
                      documents, listed, shown, filtered_docs, refiltered>>

\* Lines 497 and 515-517: "Cancel" on the pending confirmation.
confirm_delete_cancel ==
    /\ impl = "app"
    /\ confirm_delete_store # NoStore
    /\ IsListed(confirm_delete_store)
    /\ lastCall' = Called("list_all_stores", "none", list_all_stores_result("none"))
    /\ confirm_delete_store' = NoStore
    /\ UNCHANGED <<storeVars, remoteDocs, ingestVars, deleted>>
    /\ UNCHANGED <<messages, step, response, citations,
                   documents, listed, shown, filtered_docs, refiltered>>

\* A session of the app with FILE_SEARCH_STORE_NAME unset, the remote holding
\* MaxInitStores stores of any display names (fewer are reached by deleting).
InitOverview ==
    /\ InitIngestVars
    /\ InitViewVars
    /\ impl = "app"
    /\ \E names \in [1..MaxInitStores -> DisplayNames("app")] :
          remoteStores = StoresOf(names)
    /\ nextId = Len(remoteStores) + 1
    /\ FILE_SEARCH_STORE_NAME = NoStore
    /\ store_name = NoStore
    /\ rag_corpus = NoStore
    /\ trace = <<>>
    /\ remoteDocs = <<>>
    /\ lastCall = NoCall

\* The outcomes of a remote call in the overview's session: it returns or it
\* raises (every exception is handled alike by the operations called here).
OverviewOutcomes == {"none", "unavailable"}

\* The button creates stores of the other display name; stores of the
\* preferred name are created by the selector's resolve.
NextOverview ==
    \/ \E r \in OverviewOutcomes, sel \in 0..MaxId, seen \in 0..Len(remoteStores),
          listOk \in BOOLEAN, createOk \in BOOLEAN :
          main_store_selector(r, sel, seen, listOk, createOk)
    \/ \E r \in OverviewOutcomes : create_store_button("other", r)
    \/ \E sid \in 1..MaxId : delete_store_button(sid)
    \/ \E r \in OverviewOutcomes : confirm_delete_yes(r)
    \/ confirm_delete_cancel

SpecOverview == InitOverview /\ [][NextOverview]_vars

\* The step is a delete_store call that failed.
DeleteFailed == lastCall'.op = "delete_store" /\ lastCall'.ret = "False"

\* C22: after any sequence of store selections, creations and confirmed
\* deletions in one session, the session's store_name never names a store that
\* this session has deleted with success; and a delete_store call that fails
\* leaves store_name and the pending confirm_delete_store as they were.
C22_ActiveStoreNeverDeleted ==
    /\ [](store_name \notin deleted)
    /\ [][DeleteFailed =>
            (store_name' = store_name /\ confirm_delete_store' = confirm_delete_store)]_vars

\* The session selected a store and deleted it while it was the active one,
\* later selected another store, asked to delete that one, and the delete
\* failed: the store is still the active one and its confirmation is pending.
C22_Witness ==
    /\ \E i \in 1..Len(trace), j \in 1..Len(trace) :
          /\ i < j
          /\ trace[i].op = "delete_store"
          /\ trace[i].cached = trace[i].store
          /\ trace[j].op = "select"
    /\ deleted # {}
    /\ lastCall.op = "delete_store" /\ lastCall.ret = "False"
    /\ store_name # NoStore
    /\ confirm_delete_store = store_name

----------------------------------------------------------------------------
(* One run of wait_for_operation (src/app.py lines 94-131) from its entry   *)
(* to its return or raise, the program taking its next step whenever it     *)
(* has one.                                                                 *)

\* upload_document has staged the file and submitted the upload, which
\* returned a handle; wait_for_operation is about to be entered.
InitPoll ==
    /\ InitViewVars
    /\ InitSession
    /\ impl = "app"
    /\ pc = "wait_init"
    /\ now = 0
    /\ chunk_size = ChunkSizeMin
    /\ chunk_overlap = 0
    /\ temp_path = "tmp1"
    /\ tempFiles = {"tmp1"}
    /\ timeout_seconds = 0
    /\ deadline = 0
    /\ upload_op \in Handles
    /\ current = NoHandle
    /\ progress_bar = NoProgress
    /\ status_text = "none"
    /\ exc = "none"
    /\ ret = "none"
    /\ outcome = NoOutcome
    /\ uploads = 1
    /\ fetches = 0
    /\ sleeps = 0
    /\ lastProgress = NoProgress
    /\ checkedAt = 0
    /\ fetchedAt = 0

\* The steps of wait_for_operation.
PollStep ==
    \/ \E t \in 1..MaxTimeout : wait_for_operation_enter(t)
    \/ wait_for_operation_loop
    \/ wait_for_operation_check
    \/ wait_for_operation_report
    \/ wait_for_operation_sleep
    \/ wait_for_operation_fetch
    \/ wait_for_operation_finish
    \/ wait_for_operation_finally

NextPoll == PollStep \/ Tick

\* The call is the only thing the script run does, every remote fetch returns
\* or raises, and time.sleep returns: a step that can be taken is taken.
SpecPoll == InitPoll /\ [][NextPoll]_vars /\ WF_vars(PollStep)

\* ceil(a / b)
CeilDiv(a, b) == (a + b - 1) \div b

\* The call has returned to upload_document or raised into it.
PollOver == timeout_seconds > 0 /\ pc \in {"finally", "except"}

\* Every run ends, after at most ceil(D / backoff) status fetches, with the
\* progress bar and the status placeholder cleared on every exit path.
PollEndsCleared ==
    /\ <>PollOver
    /\ [](timeout_seconds > 0 => fetches <= CeilDiv(timeout_seconds, Backoff))
    /\ [](PollOver => (progress_bar = NoProgress /\ status_text = "empty"))

\* C23 as stated: every run of the polling protocol terminates, after at most
\* ceil(D / backoff) status fetches and no later than one backoff interval
\* past the deadline, and on every exit path (success, failure, timeout, an
\* exception from the status fetch) the progress indicators are cleared.
C23_ReturnsWithinBackoffOfDeadline ==
    /\ PollEndsCleared
    /\ [](PollOver => now <= deadline + Backoff)

\* C23 as amended: every run terminates, after at most ceil(D / backoff)
\* status fetches, with the indicators cleared on every exit path; its backoff
\* sleeps number at most ceil(D / backoff) and so total less than D plus one
\* backoff interval, and the time by which the return is later than the
\* deadline is less than one backoff interval plus the time that passed
\* outside the sleeps (in the progress reports, the status fetches and the
\* pause after a success).
C23_TerminatesAndClears ==
    /\ PollEndsCleared
    /\ [](timeout_seconds > 0 =>
            /\ sleeps <= CeilDiv(timeout_seconds, Backoff)
            /\ sleeps * Backoff < timeout_seconds + Backoff
            /\ now - deadline <
                  Backoff + (now - (deadline - timeout_seconds) - sleeps * Backoff))

\* A deadline of 5 seconds and an operation that never reported done: the
\* call made its two status fetches, the second took three seconds, and it
\* returned Timeout more than a backoff interval past the deadline with both
\* indicators cleared.
C23_Witness ==
    /\ PollOver /\ pc = "finally"
    /\ timeout_seconds = 5
    /\ fetches = CeilDiv(timeout_seconds, Backoff)
    /\ ~current.done
    /\ outcome.kind = "Timeout"
    /\ now > deadline + Backoff
    /\ progress_bar = NoProgress /\ status_text = "empty"

=============================================================================
